---- MODULE Spec2Model ----
(***************************************************************************)
(* A model of src/main.c: the projectile pool (addBullet, removeBullet),   *)
(* the per-tick input sampler (processEvents), the physics/logic updater   *)
(* (updateLogic), the renderer (doRender) and the main function (asset     *)
(* loading, game loop, teardown).                                          *)
(*                                                                         *)
(* Numbers.  The floats man.y, man.dy and bullet.y only ever hold          *)
(* multiples of 0.5 (0.5 is the gravity step, every other term is an       *)
(* integer), which float represents exactly.  The model stores them        *)
(* doubled, as integers: the field y holds 2 * man->y, dy holds            *)
(* 2 * man->dy.  The x coordinates are integers and are stored as such.    *)
(*                                                                         *)
(* malloc is taken to succeed (the code never tests its result).           *)
(***************************************************************************)
EXTENDS Integers, Sequences, FiniteSets, TLC

\* ------------------------------------------------------------------ bounds
\* The pool capacity: MAX_BULLETS is 1000 at src/main.c:5; the model runs the
\* same code over a smaller table.
MAX_BULLETS == 2
\* Spec stops starting new ticks once globalTime has reached MaxTime.
MaxTime == 7
\* SpecPlay stops starting new ticks PlayTicks ticks after its first.
PlayTicks == 20
\* Spec keeps the player within XSteps walking steps (3 units each) of the
\* place main puts it at; SpecPlay within PlaySteps steps of PlayX.
XSteps == 1
PlaySteps == 0
\* SpecAnim keeps the player within AnimSteps steps of PlayX.
AnimSteps == 1
\* man.dy is never initialised by main: it starts anywhere in
\* -DyInit .. DyInit (doubled units).
DyInit == 1
\* The Up key is sampled as pressed only while the player is no higher than
\* JumpRoom doubled units above the ground line.
JumpRoom == 140

\* --------------------------------------------------------- program constants
FrameTicks == 6            \* globalTime % 6 == 0 gates every animation step
GROUND == 2 * 60           \* if (man->y > 60): the ground line, doubled
GRAVITY == 1               \* man->dy += 0.5f, doubled
JUMP == 0 - (2 * 8)        \* man->dy = -8, doubled
WALK == 3                  \* man->x -= 3 / man->x += 3
TRAVEL == 1000             \* bullets[i]->x < -1000 || bullets[i]->x > 1000
BOX_W == 40                \* enemy.x + 40
BOX_H == 2 * 50            \* enemy.y + 50, doubled

VARIABLES
    pc,          \* where main is
    exitStatus,  \* the status main returned, -1 while it runs
    surf,        \* main's locals sheet, bg, bullet (SDL_Surface pointers)
    man,         \* main's local Man man
    enemy,       \* the global Man enemy (y doubled)
    bullets,     \* the global Bullet *bullets[MAX_BULLETS]
    globalTime,  \* the global int globalTime
    done,        \* main's local done
    trace,       \* what the last processEvents / pool call did (observation)
    hist         \* observation across ticks: frame advances, fire-held run

vars == <<pc, exitStatus, surf, man, enemy, bullets, globalTime, done,
          trace, hist>>

\* --------------------------------------------------------------- the pool
Slots == 0 .. (MAX_BULLETS - 1)
NULL == << >>
Bullet(x, y, dx) == [x |-> x, y |-> y, dx |-> dx]
EmptyPool == [i \in Slots |-> NULL]
Occupied(b) == {i \in Slots : b[i] # NULL}
FreeSlots(b) == {i \in Slots : b[i] = NULL}
Min(S) == CHOOSE m \in S : \A n \in S : m <= n

Max(S) == CHOOSE m \in S : \A n \in S : m >= n

\* Mutant of addBulletFound: a full pool recycles slot 0.
addBulletFoundWrap(b) ==
    IF FreeSlots(b) = {} THEN 0 ELSE Min(FreeSlots(b))

\* Mutant of addBulletFound: the scan keeps the last NULL slot it meets.
addBulletFoundLast(b) ==
    IF FreeSlots(b) = {} THEN 0 - 1 ELSE Max(FreeSlots(b))

\* addBullet: the first NULL slot in index order, -1 when there is none.
addBulletFound(b) ==
    IF FreeSlots(b) = {} THEN 0 - 1 ELSE Min(FreeSlots(b))

addBullet(b, x, y, dx) ==
    LET found == addBulletFound(b)
    IN  IF found >= 0
        THEN [b EXCEPT ![found] = <<Bullet(x, y, dx)>>]
        ELSE b

\* Mutant of removeBullet: the freed slot is refilled with the last live
\* projectile (swap-remove).
removeBulletSwap(b, i) ==
    IF b[i] # NULL
    THEN LET last == Max(Occupied(b))
         IN  [b EXCEPT ![i] = b[last], ![last] = NULL]
    ELSE b

removeBullet(b, i) ==
    IF b[i] # NULL THEN [b EXCEPT ![i] = NULL] ELSE b

\* ------------------------------------------------------------ processEvents
\* The events SDL_PollEvent can hand out, by what the switch on event.type
\* sees.  A window-close request arrives with type SDL_WINDOWEVENT (and
\* window.event SDL_WINDOWEVENT_CLOSE): "SDL_WINDOWEVENT" stands for it.  The
\* case label SDL_WINDOWEVENT_CLOSE is a window-event id, which no event.type
\* equals, so that event falls to default.
EventKinds == {"SDL_QUIT", "SDLK_ESCAPE", "SDLK_other", "SDL_WINDOWEVENT"}
EventQueues == {<< >>} \cup {<<e>> : e \in EventKinds}

\* The keyboard snapshot.  SDL_SCANCODE_DOWN is left out: its branch is empty.
KeyStates == [left : BOOLEAN, right : BOOLEAN, space : BOOLEAN, up : BOOLEAN]

Gated(gt) == gt % FrameTicks = 0

\* while (SDL_PollEvent(&event)) { switch ... }: the value of done after it.
PollEvents(q) ==
    IF \E k \in 1 .. Len(q) : q[k] \in {"SDL_QUIT", "SDLK_ESCAPE"} THEN 1 ELSE 0

\* Mutant of MoveBlock: the walk frame steps on every tick.
MoveBlockUngated(m, st, gt) ==
    IF m.shooting # 0 THEN m
    ELSE IF st.left
         THEN [m EXCEPT !.x = @ - WALK, !.walking = 1, !.facingLeft = 1,
                        !.currentSprite = (@ + 1) % 4]
    ELSE IF st.right
         THEN [m EXCEPT !.x = @ + WALK, !.walking = 1, !.facingLeft = 0,
                        !.currentSprite = (@ + 1) % 4]
    ELSE [m EXCEPT !.walking = 0, !.currentSprite = 4]

\* if (!man->shooting) { left / right / neither }
MoveBlock(m, st, gt) ==
    IF m.shooting # 0 THEN m
    ELSE IF st.left
         THEN [m EXCEPT !.x = @ - WALK, !.walking = 1, !.facingLeft = 1,
                        !.currentSprite = IF Gated(gt) THEN (@ + 1) % 4 ELSE @]
    ELSE IF st.right
         THEN [m EXCEPT !.x = @ + WALK, !.walking = 1, !.facingLeft = 0,
                        !.currentSprite = IF Gated(gt) THEN (@ + 1) % 4 ELSE @]
    ELSE [m EXCEPT !.walking = 0, !.currentSprite = 4]

\* Mutant of FireCall: the two facings' muzzle offsets are swapped.
FireCallSwapped(m, st, gt) ==
    IF m.walking = 0 /\ st.space /\ Gated(gt)
    THEN IF m.facingLeft = 0
         THEN <<m.x + 5, m.y + 2 * 20, 3>>
         ELSE <<m.x + 35, m.y + 2 * 20, 0 - 3>>
    ELSE << >>

\* Mutant of FireCall: a projectile only when the frame goes from idle to
\* firing.
FireCallIdleOnly(m, st, gt) ==
    IF m.walking = 0 /\ st.space /\ Gated(gt) /\ m.currentSprite = 4
    THEN IF m.facingLeft = 0
         THEN <<m.x + 35, m.y + 2 * 20, 3>>
         ELSE <<m.x + 5, m.y + 2 * 20, 0 - 3>>
    ELSE << >>

\* The addBullet call of the fire block: << >> when none is made, else
\* <<x, y, dx>> (y doubled).
FireCall(m, st, gt) ==
    IF m.walking = 0 /\ st.space /\ Gated(gt)
    THEN IF m.facingLeft = 0
         THEN <<m.x + 35, m.y + 2 * 20, 3>>
         ELSE <<m.x + 5, m.y + 2 * 20, 0 - 3>>
    ELSE << >>

\* if (!man->walking) { space held / released }: the player after it.
FireBlock(m, st, gt) ==
    IF m.walking # 0 THEN m
    ELSE IF st.space
         THEN [m EXCEPT !.currentSprite =
                            IF Gated(gt) THEN (IF @ = 4 THEN 5 ELSE 4) ELSE @,
                        !.shooting = 1]
    ELSE [m EXCEPT !.currentSprite = 4, !.shooting = 0]

\* if (state[SDL_SCANCODE_UP] && !man->dy) man->dy = -8;
JumpBlock(m, st) ==
    IF st.up /\ m.dy = 0 THEN [m EXCEPT !.dy = JUMP] ELSE m

\* The pool after the fire block's call.
FirePool(b, call) ==
    IF call = << >> THEN b ELSE addBullet(b, call[1], call[2], call[3])

\* processEvents(window, man): the player, the pool and the returned done.
processEvents(m, b, gt, q, st) ==
    LET m1 == MoveBlock(m, st, gt)
        call == FireCall(m1, st, gt)
        m2 == FireBlock(m1, st, gt)
    IN  [man |-> JumpBlock(m2, st),
         bullets |-> FirePool(b, call),
         done |-> PollEvents(q)]

\* -------------------------------------------------------------- updateLogic
\* Mutant of Physics: ground contact zeroes the velocity but leaves y.
PhysicsKeepY(m) ==
    LET y1 == m.y + m.dy
        dy1 == m.dy + GRAVITY
    IN  IF y1 > GROUND THEN [m EXCEPT !.y = y1, !.dy = 0]
        ELSE [m EXCEPT !.y = y1, !.dy = dy1]

\* man->y += man->dy; man->dy += 0.5f; if (man->y > 60) { y = 60; dy = 0; }
Physics(m) ==
    LET y1 == m.y + m.dy
        dy1 == m.dy + GRAVITY
    IN  IF y1 > GROUND THEN [m EXCEPT !.y = GROUND, !.dy = 0]
        ELSE [m EXCEPT !.y = y1, !.dy = dy1]

\* Mutant of Hits: the left and top borders count as inside.
HitsClosed(bl, e) ==
    /\ bl.x >= e.x
    /\ bl.x < e.x + BOX_W
    /\ bl.y >= e.y
    /\ bl.y < e.y + BOX_H

\* The collision test of one advanced projectile against the enemy box.
Hits(bl, e) ==
    /\ bl.x > e.x
    /\ bl.x < e.x + BOX_W
    /\ bl.y > e.y
    /\ bl.y < e.y + BOX_H

\* Mutant of OutOfTravel: the travel bound itself is already outside.
OutOfTravelClosed(bl) == bl.x <= 0 - TRAVEL \/ bl.x >= TRAVEL

\* if (bullets[i]->x < -1000 || bullets[i]->x > 1000)
OutOfTravel(bl) == bl.x < 0 - TRAVEL \/ bl.x > TRAVEL

\* Mutant of BulletStep: a projectile that hits the enemy is removed.
BulletStepConsume(s, e, i) ==
    IF s.bullets[i] = NULL THEN s
    ELSE LET bl == [s.bullets[i][1] EXCEPT !.x = @ + s.bullets[i][1].dx]
             b1 == [s.bullets EXCEPT ![i] = <<bl>>]
         IN  [bullets |-> IF OutOfTravel(bl) \/ Hits(bl, e)
                          THEN removeBullet(b1, i) ELSE b1,
              alive |-> IF Hits(bl, e) THEN 0 ELSE s.alive]

\* Mutant of BulletStep: the alive flag is recomputed for every projectile.
BulletStepRevive(s, e, i) ==
    IF s.bullets[i] = NULL THEN s
    ELSE LET bl == [s.bullets[i][1] EXCEPT !.x = @ + s.bullets[i][1].dx]
             b1 == [s.bullets EXCEPT ![i] = <<bl>>]
         IN  [bullets |-> IF OutOfTravel(bl) THEN removeBullet(b1, i) ELSE b1,
              alive |-> IF Hits(bl, e) THEN 0 ELSE 1]

\* The body of the for loop for slot i, on the pair [bullets, alive].
BulletStep(s, e, i) ==
    IF s.bullets[i] = NULL THEN s
    ELSE LET bl == [s.bullets[i][1] EXCEPT !.x = @ + s.bullets[i][1].dx]
             b1 == [s.bullets EXCEPT ![i] = <<bl>>]
         IN  [bullets |-> IF OutOfTravel(bl) THEN removeBullet(b1, i) ELSE b1,
              alive |-> IF Hits(bl, e) THEN 0 ELSE s.alive]

\* for (i = 0; i < MAX_BULLETS; i++): slots i .. MAX_BULLETS - 1 in order.
RECURSIVE BulletLoop(_, _, _)
BulletLoop(s, e, i) ==
    IF i >= MAX_BULLETS THEN s
    ELSE BulletLoop(BulletStep(s, e, i), e, i + 1)

\* Mutant of EnemyAnim: the frame is not clamped at 7.
EnemyAnimNoClamp(e, gt) ==
    IF e.alive = 0 /\ Gated(gt)
    THEN IF e.currentSprite < 6 THEN [e EXCEPT !.currentSprite = 6]
         ELSE IF e.currentSprite + 1 > 7
              THEN [e EXCEPT !.visible = 0, !.currentSprite = @ + 1]
              ELSE [e EXCEPT !.currentSprite = @ + 1]
    ELSE e

\* Mutant of EnemyAnim: the enemy is hidden as soon as it reaches frame 7.
EnemyAnimHideAtSeven(e, gt) ==
    IF e.alive = 0 /\ Gated(gt)
    THEN IF e.currentSprite < 6 THEN [e EXCEPT !.currentSprite = 6]
         ELSE [e EXCEPT !.visible = 0, !.currentSprite = 7]
    ELSE e

\* if (enemy.alive == 0 && globalTime % 6 == 0) { ... }
EnemyAnim(e, gt) ==
    IF e.alive = 0 /\ Gated(gt)
    THEN IF e.currentSprite < 6 THEN [e EXCEPT !.currentSprite = 6]
         ELSE IF e.currentSprite + 1 > 7
              THEN [e EXCEPT !.visible = 0, !.currentSprite = 7]
              ELSE [e EXCEPT !.currentSprite = @ + 1]
    ELSE e

\* updateLogic(man): the player, the enemy, the pool and globalTime after it.
updateLogic(m, e, b, gt) ==
    LET s == BulletLoop([bullets |-> b, alive |-> e.alive], e, 0)
    IN  [man |-> Physics(m),
         enemy |-> EnemyAnim([e EXCEPT !.alive = s.alive], gt),
         bullets |-> s.bullets,
         globalTime |-> gt + 1]

\* --------------------------------------------------------------------- main
\* What the observation variables hold when nothing is being observed.
\* After updateLogic, trace holds the enemy's alive flag from before it.
NoTrace == [op |-> "none"]
NoHist == [sinceAdv |-> FrameTicks + 1, held |-> << >>, deadFor |-> 0]

\* main, lines 267-272: man.dy, man.walking and man.shooting are never
\* assigned before the loop reads them, so they start with any value (for the
\* two flags only zero / non-zero is ever tested; 1 stands for non-zero).
ManStart ==
    {[x |-> 50, y |-> 0, dy |-> d, currentSprite |-> 4, walking |-> w,
      facingLeft |-> 0, shooting |-> sh, visible |-> 1, alive |-> 1] :
        d \in (0 - DyInit) .. DyInit, w \in {0, 1}, sh \in {0, 1}}

\* main, lines 274-279; enemy is a global, so its other fields are zero.
EnemyStart ==
    [x |-> 250, y |-> 2 * 60, dy |-> 0, currentSprite |-> 4, walking |-> 0,
     facingLeft |-> 1, shooting |-> 0, visible |-> 1, alive |-> 1]

Init ==
    /\ pc = "loadSheet"
    /\ exitStatus = 0 - 1
    /\ surf = [sheet |-> "unset", bg |-> "unset", bullet |-> "unset"]
    /\ man \in ManStart
    /\ enemy = EnemyStart
    /\ bullets = EmptyPool
    /\ globalTime = 0
    /\ done = 0
    /\ trace = NoTrace
    /\ hist = NoHist

\* What IMG_Load returns.
Loaded(ok) == IF ok THEN "valid" ELSE "NULL"
\* SDL_FreeSurface(p): a freed pointer keeps its non-NULL value.
Freed(p) == IF p = "NULL" THEN "NULL" ELSE "freed"

\* One asset-loading step of main: the pointer `tested` is the one the if
\* looks at, `field` the local that IMG_Load's result is stored in.
LoadStep(here, next, field, tested, ok) ==
    /\ pc = here
    /\ LET s1 == [surf EXCEPT ![field] = Loaded(ok)]
       IN  IF s1[tested] = "NULL"
           THEN /\ surf' = s1
                /\ pc' = "exit"
                /\ exitStatus' = 1
           ELSE /\ surf' = [s1 EXCEPT ![field] = Freed(@)]
                /\ pc' = next
                /\ UNCHANGED exitStatus
    /\ UNCHANGED <<man, enemy, bullets, globalTime, done, trace, hist>>

\* sheet = IMG_Load("sheet.png"); if (!sheet) return 1;
LoadSheet == \E ok \in BOOLEAN : LoadStep("loadSheet", "loadEnemy", "sheet", "sheet", ok)
\* sheet = IMG_Load("badman_sheet.png"); if (!sheet) return 1;
LoadEnemySheet == \E ok \in BOOLEAN : LoadStep("loadEnemy", "loadBg", "sheet", "sheet", ok)
\* bg = IMG_Load("background.png"); if (!sheet) return 1;
LoadBackground == \E ok \in BOOLEAN : LoadStep("loadBg", "loadBullet", "bg", "sheet", ok)
\* bullet = IMG_Load("bullet.png"); if (!bullet) return 1;  then done = 0.
LoadBullet == \E ok \in BOOLEAN : LoadStep("loadBullet", "loop", "bullet", "bullet", ok)

\* while (!done): a new tick starts only below the tick bound `limit`.
LoopTest(limit) ==
    /\ pc = "loop"
    /\ done # 0 \/ globalTime < limit
    /\ pc' = IF done = 0 THEN "events" ELSE "cleanup"
    /\ UNCHANGED <<exitStatus, surf, man, enemy, bullets, globalTime, done,
                   trace, hist>>

Count(b) == Cardinality(Occupied(b))

\* Observation of one processEvents call: whether the fire block ran with
\* the fire key held, whether no direction key was held, the addBullet call
\* it made, whether the pool was full before it and how
\* many slots it filled, how many times it stepped the player's animation
\* frame (a walk-cycle increment or a fire toggle), whether it gave the jump
\* impulse, the frame before and after the fire block, and how many ticks
\* before this one the frame was last stepped (FrameTicks + 1: longer ago
\* than FrameTicks, or never), and whether the drained queue held a quit,
\* Escape or window-close event.
EventsTrace(m, b, gt, q, st, h) ==
    LET m1 == MoveBlock(m, st, gt)
        m2 == FireBlock(m1, st, gt)
        m3 == JumpBlock(m2, st)
        call == FireCall(m1, st, gt)
        walkAdv == IF m1.walking # 0 /\ m.shooting = 0
                      /\ m1.currentSprite # m.currentSprite THEN 1 ELSE 0
        fireAdv == IF m2.shooting # 0 /\ m1.walking = 0
                      /\ m2.currentSprite # m1.currentSprite THEN 1 ELSE 0
    IN  [op |-> "processEvents",
         fire |-> st.space /\ m1.walking = 0,
         still |-> ~st.left /\ ~st.right,
         call |-> call,
         full |-> FreeSlots(b) = {},
         spawned |-> Count(FirePool(b, call)) - Count(b),
         adv |-> walkAdv + fireAdv,
         jump |-> m3.dy # m2.dy,
         frame |-> <<m1.currentSprite, m2.currentSprite>>,
         sinceAdv |-> h.sinceAdv,
         closing |-> \E k \in 1 .. Len(q) :
                        q[k] \in {"SDL_QUIT", "SDLK_ESCAPE", "SDL_WINDOWEVENT"}]

\* Observation across ticks: the ticks since the frame was last stepped
\* (counted up to FrameTicks + 1), and, for the current run of consecutive ticks
\* with fire held, no direction key, the player not walking and a free slot,
\* the number of projectiles each of its last 2 * FrameTicks ticks added.
Last(q, n) == IF Len(q) <= n THEN q ELSE SubSeq(q, Len(q) - n + 1, Len(q))
EventsHist(h, t) ==
    LET run == t.fire /\ t.still /\ ~t.full
    IN  [sinceAdv |-> IF t.adv > 0 THEN 1
                      ELSE IF h.sinceAdv <= FrameTicks THEN h.sinceAdv + 1
                      ELSE FrameTicks + 1,
         held |-> IF run THEN Last(Append(h.held, t.spawned), 2 * FrameTicks)
                  ELSE << >>,
         deadFor |-> h.deadFor]

\* Observation across ticks: the number of updateLogic calls finished since
\* the enemy died, the one that killed it included (counted up to
\* 3 * FrameTicks + 1).
UpdateHist(h, e1) ==
    [h EXCEPT !.deadFor = IF e1.alive # 0 THEN 0
                          ELSE IF @ <= 3 * FrameTicks THEN @ + 1
                          ELSE 3 * FrameTicks + 1]

\* done = processEvents(window, &man), for one drained event queue (one of
\* `queues`) and one keyboard snapshot (one of `keys`); the player stays
\* within `steps` steps of x0.
ProcessEventsOn(x0, steps, queues, keys) ==
    /\ pc = "events"
    /\ \E q \in queues, st \in keys :
         LET r == processEvents(man, bullets, globalTime, q, st)
             t == EventsTrace(man, bullets, globalTime, q, st, hist)
         IN  /\ r.man.x >= x0 - WALK * steps
             /\ r.man.x <= x0 + WALK * steps
             /\ st.up => man.y >= GROUND - JumpRoom
             /\ man' = r.man
             /\ bullets' = r.bullets
             /\ done' = r.done
             /\ trace' = t
             /\ hist' = EventsHist(hist, t)
    /\ pc' = "update"
    /\ UNCHANGED <<exitStatus, surf, enemy, globalTime>>

ProcessEvents(x0, steps, queues) ==
    ProcessEventsOn(x0, steps, queues, KeyStates)

\* updateLogic(&man)
UpdateLogic ==
    /\ pc = "update"
    /\ LET r == updateLogic(man, enemy, bullets, globalTime)
       IN  /\ man' = r.man
           /\ enemy' = r.enemy
           /\ bullets' = r.bullets
           /\ globalTime' = r.globalTime
           /\ hist' = UpdateHist(hist, r.enemy)
    /\ pc' = "render"
    /\ trace' = [op |-> "updateLogic", alive |-> enemy.alive]
    /\ UNCHANGED <<exitStatus, surf, done>>

\* The source rectangle doRender cuts from the player's sheet.
ManSrcRect(m) == [x |-> 40 * m.currentSprite, y |-> 0, w |-> 40, h |-> 50]
\* The source rectangle doRender cuts from the enemy's sheet.
EnemySrcRect(e) == [x |-> 40 * 40 * e.currentSprite, y |-> 0, w |-> 40, h |-> 50]

\* What doRender draws after the background: the player's and the enemy's
\* source rectangle (<< >> when the actor is not drawn) and the slots whose
\* projectile is drawn.
Render(m, e, b) ==
    [man |-> IF m.visible # 0 THEN <<ManSrcRect(m)>> ELSE << >>,
     enemy |-> IF e.visible # 0 THEN <<EnemySrcRect(e)>> ELSE << >>,
     bullets |-> Occupied(b)]

\* doRender(renderer, &man); SDL_Delay(10): no game state is written.
DoRender ==
    /\ pc = "render"
    /\ pc' = "loop"
    /\ trace' = [op |-> "doRender", draw |-> Render(man, enemy, bullets)]
    /\ UNCHANGED <<exitStatus, surf, man, enemy, bullets, globalTime, done,
                   hist>>

\* for (i = 0; i < MAX_BULLETS; i++) removeBullet(i): slots i .. in order.
RECURSIVE RemoveAll(_, _)
RemoveAll(b, i) ==
    IF i >= MAX_BULLETS THEN b ELSE RemoveAll(removeBullet(b, i), i + 1)

\* After the loop: teardown, SDL_Quit, return 0.
Cleanup ==
    /\ pc = "cleanup"
    /\ bullets' = RemoveAll(bullets, 0)
    /\ pc' = "exit"
    /\ exitStatus' = 0
    /\ UNCHANGED <<surf, man, enemy, globalTime, done, trace, hist>>

Next ==
    \/ LoadSheet
    \/ LoadEnemySheet
    \/ LoadBackground
    \/ LoadBullet
    \/ LoopTest(MaxTime)
    \/ ProcessEvents(50, XSteps, EventQueues)
    \/ UpdateLogic
    \/ DoRender
    \/ Cleanup

Spec == Init /\ [][Next]_vars

\* ------------------------------------------------------------ play, mid-game
\* States the loop reaches at its top: Right held for 53 ticks from the start
\* (x = 50 + 53 * 3 = 209), or for 54 ticks and then Left for one (the same
\* place, facing left), then no key until tick 60, the player long landed.
\* A projectile fired from here facing right starts at x = 244 and crosses
\* the left border of the enemy box (x = 250) two updates later.
PlayX == 50 + 53 * WALK
PlayStart == 10 * FrameTicks
InitPlay ==
    /\ pc = "loop"
    /\ exitStatus = 0 - 1
    /\ surf = [sheet |-> "freed", bg |-> "freed", bullet |-> "freed"]
    /\ \E f \in {0, 1} :
         man = [x |-> PlayX, y |-> GROUND, dy |-> 0, currentSprite |-> 4,
                walking |-> 0, facingLeft |-> f, shooting |-> 0,
                visible |-> 1, alive |-> 1]
    /\ enemy = EnemyStart
    /\ bullets = EmptyPool
    /\ globalTime = PlayStart
    /\ done = 0
    /\ trace = NoTrace
    /\ hist = NoHist

\* Play goes on: no quit event arrives (Spec covers the way out).
QuietQueues == {<< >>}

NextPlay ==
    \/ LoopTest(PlayStart + PlayTicks)
    \/ ProcessEvents(PlayX, PlaySteps, QuietQueues)
    \/ UpdateLogic
    \/ DoRender

SpecPlay == InitPlay /\ [][NextPlay]_vars

\* --------------------------------------------------- play on the ground
\* Play from the same mid-game states with the Up key never pressed: the
\* player walks (within AnimSteps steps of PlayX), stands and fires.
GroundKeys == {st \in KeyStates : ~st.up}

NextAnim ==
    \/ LoopTest(PlayStart + PlayTicks)
    \/ ProcessEventsOn(PlayX, AnimSteps, QuietQueues, GroundKeys)
    \/ UpdateLogic
    \/ DoRender

SpecAnim == InitPlay /\ [][NextAnim]_vars

\* ------------------------------------------------------- the pool on its own
\* addBullet and removeBullet called in any order on the pool, with the
\* arguments the fire block passes (y doubled).  trace holds the call, the
\* pool before it and the call before that.
PoolArgs == {<<50 + 35, y, dx>> : y \in {2 * 20, 2 * 80}, dx \in {3, 0 - 3}}
TraceCall(t) == IF t.op = "none" THEN <<"none", << >>>> ELSE <<t.op, t.args>>

InitPool ==
    /\ pc = "pool"
    /\ exitStatus = 0 - 1
    /\ surf = [sheet |-> "freed", bg |-> "freed", bullet |-> "freed"]
    /\ man = [x |-> 50, y |-> GROUND, dy |-> 0, currentSprite |-> 4,
              walking |-> 0, facingLeft |-> 0, shooting |-> 0, visible |-> 1,
              alive |-> 1]
    /\ enemy = EnemyStart
    /\ bullets = EmptyPool
    /\ globalTime = 0
    /\ done = 0
    /\ trace = NoTrace
    /\ hist = NoHist

AddBullet ==
    /\ pc = "pool"
    /\ \E a \in PoolArgs :
         /\ bullets' = addBullet(bullets, a[1], a[2], a[3])
         /\ trace' = [op |-> "addBullet", args |-> a, before |-> bullets,
                      prev |-> TraceCall(trace)]
    /\ UNCHANGED <<pc, exitStatus, surf, man, enemy, globalTime, done, hist>>

RemoveBullet ==
    /\ pc = "pool"
    /\ \E i \in Slots :
         /\ bullets' = removeBullet(bullets, i)
         /\ trace' = [op |-> "removeBullet", args |-> <<i>>, before |-> bullets,
                      prev |-> TraceCall(trace)]
    /\ UNCHANGED <<pc, exitStatus, surf, man, enemy, globalTime, done, hist>>

NextPool == AddBullet \/ RemoveBullet

SpecPool == InitPool /\ [][NextPool]_vars

\* ------------------------------------------------- projectiles in flight
\* updateLogic called tick after tick on a pool of projectiles already in
\* flight, with no key pressed in between, until the pool is empty.  The
\* projectiles are ones the player fires from the ground (y = 60 + 20), to
\* the right or to the left: two short of the enemy box, the others two
\* updates short of the travel bound.
FlightBullets ==
    {Bullet(x, y, 3) : x \in {226, 244}, y \in {2 * 80}}
        \cup {Bullet(997, 2 * 80, 3), Bullet(0 - 995, 2 * 80, 0 - 3)}

InitFlight ==
    /\ pc = "flight"
    /\ exitStatus = 0 - 1
    /\ surf = [sheet |-> "freed", bg |-> "freed", bullet |-> "freed"]
    /\ man = [x |-> 50, y |-> GROUND, dy |-> 0, currentSprite |-> 4,
              walking |-> 0, facingLeft |-> 0, shooting |-> 0, visible |-> 1,
              alive |-> 1]
    /\ enemy = EnemyStart
    /\ bullets \in [Slots -> {NULL} \cup {<<bl>> : bl \in FlightBullets}]
    /\ globalTime = 0
    /\ done = 0
    /\ trace = NoTrace
    /\ hist = NoHist

FlightTick ==
    /\ pc = "flight"
    /\ bullets # EmptyPool
    /\ LET r == updateLogic(man, enemy, bullets, globalTime)
       IN  /\ man' = r.man
           /\ enemy' = r.enemy
           /\ bullets' = r.bullets
           /\ globalTime' = r.globalTime
           /\ hist' = UpdateHist(hist, r.enemy)
    /\ trace' = [op |-> "updateLogic", alive |-> enemy.alive]
    /\ UNCHANGED <<pc, exitStatus, surf, done>>

NextFlight == FlightTick

\* The loop calls updateLogic on every iteration: a tick that can run, runs.
SpecFlight == InitFlight /\ [][NextFlight]_vars /\ WF_vars(FlightTick)

\* ------------------------------------------------------ the physics on its own
\* updateLogic called tick after tick with no key pressed in between, from
\* any player at or above the ground line moving up, until the player rests
\* on the ground.
ClampY == 8
ClampDy == 16
InitClamp ==
    /\ pc = "physics"
    /\ exitStatus = 0 - 1
    /\ surf = [sheet |-> "freed", bg |-> "freed", bullet |-> "freed"]
    /\ \E y \in (GROUND - ClampY) .. GROUND, d \in (0 - ClampDy) .. (0 - 1) :
         man = [x |-> 50, y |-> y, dy |-> d, currentSprite |-> 4,
                walking |-> 0, facingLeft |-> 0, shooting |-> 0,
                visible |-> 1, alive |-> 1]
    /\ enemy = EnemyStart
    /\ bullets = EmptyPool
    /\ globalTime = 0
    /\ done = 0
    /\ trace = NoTrace
    /\ hist = NoHist

Resting == man.y = GROUND /\ man.dy = 0

PhysicsTick ==
    /\ pc = "physics"
    /\ ~Resting
    /\ LET r == updateLogic(man, enemy, bullets, globalTime)
       IN  /\ man' = r.man
           /\ enemy' = r.enemy
           /\ bullets' = r.bullets
           /\ globalTime' = r.globalTime
           /\ hist' = UpdateHist(hist, r.enemy)
    /\ trace' = [op |-> "updateLogic", alive |-> enemy.alive]
    /\ UNCHANGED <<pc, exitStatus, surf, done>>

NextClamp == PhysicsTick

\* As in SpecFlight: the loop never skips an update.
SpecClamp == InitClamp /\ [][NextClamp]_vars /\ WF_vars(PhysicsTick)

\* ------------------------------------------------------------------- claims
LoopPcs == {"loop", "events", "update", "render", "cleanup"}

\* C1: the pool never holds more than MAX_BULLETS projectiles, and an
\* addBullet call made on a full pool leaves every slot as it was.
PoolDropsWhenFull_C1 ==
    /\ Count(bullets) <= MAX_BULLETS
    /\ DOMAIN bullets = Slots
    /\ (trace.op = "addBullet" /\ FreeSlots(trace.before) = {})
          => bullets = trace.before
DroppedSpawn_C1 ==
    /\ trace.op = "addBullet"
    /\ FreeSlots(trace.before) = {}
    /\ Count(bullets) = MAX_BULLETS

\* C2: removeBullet(i) leaves slot i empty and every other slot as it was; a
\* second removeBullet(i) right after the first, and a removeBullet of an
\* empty slot, change nothing.
RemoveIdempotent_C2 ==
    trace.op = "removeBullet" =>
        LET i == trace.args[1]
        IN  /\ bullets[i] = NULL
            /\ \A j \in Slots \ {i} : bullets[j] = trace.before[j]
            /\ trace.prev = <<"removeBullet", trace.args>>
                  => bullets = trace.before
            /\ trace.before[i] = NULL => bullets = trace.before
RemovedTwice_C2 ==
    /\ trace.op = "removeBullet"
    /\ trace.prev = <<"removeBullet", trace.args>>
    /\ Count(bullets) > 0

\* C3: once enemy.alive is 0 it is 0 in every later state of the game loop.
EnemyStaysDead_C3 == [][enemy.alive = 0 => enemy'.alive = 0]_vars
\* The enemy is dead, its death animation has reached frame 7, and the
\* update just run moved a projectile into the enemy box once more.
HitWhileDead_C3 ==
    /\ trace.op = "updateLogic"
    /\ trace.alive = 0
    /\ enemy.alive = 0
    /\ enemy.currentSprite = 7
    /\ \E i \in Slots : bullets[i] # NULL /\ Hits(bullets[i][1], enemy)

\* C4: from any player at or above the ground line with a negative dy and
\* no Up key, repeated updateLogic ticks reach y = 60 with dy = 0, and y
\* never exceeds 60.
GroundClamp_C4 == [](man.y <= GROUND) /\ <>Resting
Landed_C4 == pc = "physics" /\ Resting /\ globalTime > 0

\* C5: whenever processEvents gives the jump impulse, the player stands on
\* the ground line (y = 60).
JumpOnlyGrounded_C5 ==
    (trace.op = "processEvents" /\ trace.jump) => man.y = GROUND

\* C6: over 12 consecutive ticks with fire held, no direction key, the
\* player not walking and a free slot, exactly 2 projectiles are spawned, 6
\* ticks apart; each spawned projectile starts at (x + 35, y + 20) with
\* dx = 3 facing right, at (x + 5, y + 20) with dx = -3 facing left.
Muzzle(m) ==
    IF m.facingLeft = 0 THEN <<m.x + 35, m.y + 40, 3>>
    ELSE <<m.x + 5, m.y + 40, 0 - 3>>
FireWindow_C6 ==
    /\ Len(hist.held) = 2 * FrameTicks =>
          /\ \A k \in 1 .. 12 : hist.held[k] \in {0, 1}
          /\ Cardinality({k \in 1 .. 12 : hist.held[k] = 1}) = 2
          /\ \E k \in 1 .. 6 : hist.held[k] = 1 /\ hist.held[k + 6] = 1
    /\ (trace.op = "processEvents" /\ trace.fire /\ trace.still
            /\ trace.spawned = 1) =>
          /\ trace.call = Muzzle(man)
          /\ \E i \in Slots :
                bullets[i] = <<Bullet(Muzzle(man)[1], Muzzle(man)[2],
                                      Muzzle(man)[3])>>
HeldTwelveTicks_C6 ==
    /\ trace.op = "processEvents"
    /\ Len(hist.held) = 2 * FrameTicks
    /\ trace.spawned = 1
    /\ man.facingLeft = 1

\* C7 as stated: with fire held, the player not walking and a free slot, a
\* projectile is spawned exactly on the ticks where the frame goes from idle
\* (4) to firing (5).
SpawnOnIdleToFiring_C7 ==
    (trace.op = "processEvents" /\ trace.fire /\ ~trace.full) =>
        /\ trace.spawned \in {0, 1}
        /\ trace.spawned = 1 <=> trace.frame = <<4, 5>>
\* C7 as amended: a projectile is spawned exactly on the ticks where the
\* frame toggles between 4 and 5, in either direction, which are the ticks
\* with globalTime % 6 == 0; none on a tick where the frame stays.
SpawnOnEveryToggle_C7 ==
    (trace.op = "processEvents" /\ trace.fire) =>
        /\ trace.frame[1] \in {4, 5}
        /\ trace.frame[2] \in {4, 5}
        /\ trace.spawned \in {0, 1}
        /\ trace.full => trace.spawned = 0
        /\ ~trace.full =>
              (trace.spawned = 1 <=> trace.frame[1] # trace.frame[2])
        /\ trace.frame[1] # trace.frame[2] <=> globalTime % 6 = 0
SpawnOnFiringToIdle_C7 ==
    /\ trace.op = "processEvents"
    /\ trace.fire
    /\ trace.spawned = 1
    /\ trace.frame = <<5, 4>>

\* C8: processEvents steps the player's walk or fire frame at most once per
\* call and only when globalTime % 6 == 0, so two consecutive steps are at
\* least 6 ticks apart.
FrameGating_C8 ==
    trace.op = "processEvents" =>
        /\ trace.adv <= 1
        /\ trace.adv = 1 =>
              /\ globalTime % 6 = 0
              /\ trace.sinceAdv >= 6
\* A walk-frame step exactly 6 ticks after the previous frame step.
SteppedSixApart_C8 ==
    /\ trace.op = "processEvents"
    /\ trace.adv = 1
    /\ trace.sinceAdv = 6
    /\ man.walking = 1

\* C9: an updateLogic call that starts with the enemy alive ends with it
\* dead exactly when some live projectile, advanced by dx, lies strictly
\* inside the enemy box.
StrictlyInside(bl) ==
    /\ enemy.x < bl.x
    /\ bl.x < enemy.x + 40
    /\ enemy.y < bl.y
    /\ bl.y < enemy.y + 100
KillIffInside_C9 ==
    (trace.op = "updateLogic" /\ trace.alive = 1) =>
        (enemy.alive = 0 <=>
            \E i \in Slots : bullets[i] # NULL /\ StrictlyInside(bullets[i][1]))
Killed_C9 ==
    /\ trace.op = "updateLogic"
    /\ trace.alive = 1
    /\ enemy.alive = 0

\* C10: if the load of any of the four assets fails, main never enters the
\* game loop and returns a non-zero status.
AssetFailureFatal_C10 ==
    (\E a \in {"sheet", "bg", "bullet"} : surf[a] = "NULL") =>
        /\ pc \notin LoopPcs
        /\ pc = "exit" => exitStatus > 0

\* C11: wherever the loop stands (after input sampling, after the update,
\* at render), the player's frame is in 0..5 and the enemy's is 4, 6 or 7.
ValidFrames_C11 ==
    /\ man.currentSprite \in 0 .. 5
    /\ enemy.currentSprite \in {4, 6, 7}
\* The enemy's animation has run to its last frame and the player, who
\* fired at it, has walked since.
LastFrameWalking_C11 ==
    /\ pc = "render"
    /\ enemy.currentSprite = 7
    /\ enemy.visible = 0
    /\ man.walking = 1
    /\ man.currentSprite \in 0 .. 3

\* C12: from the state main sets up, processEvents never leaves walking and
\* shooting both non-zero, and a call that starts with shooting set leaves
\* the player's x, walking and facingLeft as they were.
ExclusiveModes_C12 ==
    [][pc = "events" =>
          /\ ~(man'.walking # 0 /\ man'.shooting # 0)
          /\ man.shooting # 0 =>
                /\ man'.x = man.x
                /\ man'.walking = man.walking
                /\ man'.facingLeft = man.facingLeft]_vars

\* C13: addBullet called on a pool with an empty slot puts (x, y, dx) in
\* the lowest-index empty slot, leaves every other slot as it was, and the
\* occupied count grows by one.
FillsLowestEmpty_C13 ==
    (trace.op = "addBullet" /\ FreeSlots(trace.before) # {}) =>
        LET k == Min(FreeSlots(trace.before))
            a == trace.args
        IN  /\ bullets[k] = <<Bullet(a[1], a[2], a[3])>>
            /\ \A i \in Slots \ {k} : bullets[i] = trace.before[i]
            /\ Count(bullets) = Count(trace.before) + 1
\* addBullet filled slot 0 below a slot that was already occupied.
FilledHole_C13 ==
    /\ trace.op = "addBullet"
    /\ trace.before[0] = NULL
    /\ trace.before[MAX_BULLETS - 1] # NULL
    /\ bullets[0] # NULL

\* C14: while alive the enemy is visible at frame 4; once dead its frame
\* goes 4 -> 6 -> 7 and stays 7, one step per update with
\* globalTime % 6 == 0 and none in any other; it is visible when it reaches
\* 6 and 7, hidden by the next gated update, which comes within 18 updates
\* of its death, and never visible again.
Dying_C14 ==
    /\ enemy.alive # 0 => enemy.visible = 1 /\ enemy.currentSprite = 4
    /\ enemy.currentSprite \in {4, 6} => enemy.visible = 1
    /\ enemy.visible = 0 => enemy.alive = 0 /\ enemy.currentSprite = 7
    /\ hist.deadFor >= 3 * FrameTicks => enemy.visible = 0
DeathAnimation_C14 ==
    /\ []Dying_C14
    /\ [][/\ enemy'.currentSprite # enemy.currentSprite =>
              /\ pc = "update"
              /\ Gated(globalTime)
              /\ <<enemy.currentSprite, enemy'.currentSprite>>
                    \in {<<4, 6>>, <<6, 7>>}
              /\ enemy'.visible = 1
          /\ enemy'.visible # enemy.visible =>
              /\ pc = "update"
              /\ Gated(globalTime)
              /\ enemy.currentSprite = 7
              /\ enemy'.visible = 0
          /\ (pc = "update" /\ Gated(globalTime) /\ enemy'.alive = 0) =>
              /\ enemy.currentSprite = 4 => enemy'.currentSprite = 6
              /\ enemy.currentSprite = 6 => enemy'.currentSprite = 7
              /\ enemy.currentSprite = 7 => enemy'.visible = 0
          /\ enemy.visible = 0 => enemy'.visible = 0]_vars
\* The enemy was hidden by the third gated update after its death, 17 updates
\* after the one that killed it.
HiddenByThirdStep_C14 ==
    /\ trace.op = "updateLogic"
    /\ Gated(globalTime - 1)
    /\ hist.deadFor = 3 * FrameTicks - 1
    /\ enemy.visible = 0

\* C15: a live projectile keeps its slot, y and dx (+3 or -3) and moves by
\* dx in every update, until the update in which its advanced x is below
\* -1000 or above 1000, which empties its slot; an empty slot stays empty
\* through an update; after every update the live projectiles have x in
\* [-1000, 1000]; and every projectile is eventually despawned.
Advanced(bl) == [bl EXCEPT !.x = @ + bl.dx]
Lifecycle_C15 ==
    /\ [][pc = "flight" =>
            \A i \in Slots :
                IF bullets[i] = NULL THEN bullets'[i] = NULL
                ELSE /\ bullets[i][1].dx \in {3, 0 - 3}
                     /\ bullets'[i] =
                            IF \/ Advanced(bullets[i][1]).x < 0 - 1000
                               \/ Advanced(bullets[i][1]).x > 1000
                            THEN NULL
                            ELSE <<Advanced(bullets[i][1])>>]_vars
    /\ [](trace.op = "updateLogic" =>
            \A i \in Slots :
                bullets[i] # NULL =>
                    bullets[i][1].x \in (0 - 1000) .. 1000)
    /\ <>(bullets = EmptyPool)
\* After an update a projectile is live exactly on the travel bound, and
\* the slot of another has been emptied.
LiveOnTheBound_C15 ==
    /\ trace.op = "updateLogic"
    /\ \E i \in Slots : bullets[i] # NULL /\ bullets[i][1].x = 1000
    /\ \E i \in Slots : bullets[i] = NULL

\* C16: an update in which a projectile's advanced position is strictly
\* inside the enemy box keeps the projectile in its slot with the same y
\* and dx, and with the enemy dead every projectile still inside the
\* travel bound goes on moving by dx.
PassThrough_C16 ==
    [][pc = "flight" =>
          \A i \in Slots :
              (/\ bullets[i] # NULL
               /\ \/ StrictlyInside(Advanced(bullets[i][1]))
                  \/ enemy.alive = 0 /\ ~OutOfTravel(Advanced(bullets[i][1]))) =>
                  /\ bullets'[i] # NULL
                  /\ bullets'[i][1].y = bullets[i][1].y
                  /\ bullets'[i][1].dx = bullets[i][1].dx
                  /\ bullets'[i][1].x = bullets[i][1].x + bullets[i][1].dx]_vars
\* The update that killed the enemy has left the projectile that hit it in
\* its slot, inside the box.
HitAndKept_C16 ==
    /\ pc = "flight"
    /\ trace.op = "updateLogic"
    /\ trace.alive = 1
    /\ enemy.alive = 0
    /\ \E i \in Slots : bullets[i] # NULL /\ StrictlyInside(bullets[i][1])

\* C17: doRender cuts the source rectangle of the player and of the enemy at
\* x = 40 * currentSprite, 40 wide and 50 high, draws each actor only when
\* its visible flag is set, and leaves the actors, the pool and globalTime
\* as they were.
SrcRect(a) == [x |-> 40 * a.currentSprite, y |-> 0, w |-> 40, h |-> 50]
RendererSource_C17 ==
    [][pc = "render" =>
          /\ trace'.draw.man =
                IF man.visible # 0 THEN <<SrcRect(man)>> ELSE << >>
          /\ trace'.draw.enemy =
                IF enemy.visible # 0 THEN <<SrcRect(enemy)>> ELSE << >>
          /\ UNCHANGED <<man, enemy, bullets, globalTime>>]_vars

\* C18: an iteration runs processEvents, updateLogic and doRender once each
\* in that order and adds exactly 1 to globalTime; done is read only at the
\* loop top, so the tick that drains a quit, window-close or Escape event
\* still updates and renders, no tick starts after it, and the pool is
\* empty once the loop has been left.
LoopOrder_C18 ==
    [][/\ pc = "loop" => pc' = IF done = 0 THEN "events" ELSE "cleanup"
       /\ pc = "events" =>
             /\ pc' = "update"
             /\ globalTime' = globalTime
             /\ trace'.closing => done' # 0
       /\ pc = "update" =>
             /\ pc' = "render"
             /\ globalTime' = globalTime + 1
             /\ done' = done
       /\ pc = "render" =>
             /\ pc' = "loop"
             /\ globalTime' = globalTime
             /\ done' = done
       /\ pc = "cleanup" => pc' = "exit" /\ bullets' = EmptyPool]_vars

\* C19: at every input sampling that finds the player on the ground line
\* and not rising, dy is 0, so that Up held on that tick starts a jump.
GroundedJump_C19 ==
    (pc = "events" /\ man.y = GROUND /\ man.dy >= 0) => man.dy = 0

====
